---- MODULE Spec2Model ----
(***************************************************************************)
(* Model of src/forStudent.py: the Streamlit student dashboard.  One run   *)
(* of main() is one action; the remote worksheet and the secrets store are *)
(* the environment and are read afresh by every fetch.                     *)
(*                                                                         *)
(* A Python string is a sequence of one-character strings, so that strip,  *)
(* lower, concatenation and regular-expression search are computed.        *)
(***************************************************************************)
EXTENDS Integers, Sequences, FiniteSets, TLC

(***************************************************************************)
(* Bounds of the model.                                                    *)
(***************************************************************************)
\* data rows of a worksheet of the class-record family
MaxRows == 2
\* data rows of a raw table given to the table normalizer
MaxRawRows == 3
\* columns of a worksheet of the header family
MaxCols == 3

(***************************************************************************)
(* Column names used by the program.                                       *)
(***************************************************************************)
MM == <<"M", "M">>
Hr == <<"H", "r">>
StudentID == <<"S", "t", "u", "d", "e", "n", "t", " ", "I", "D">>
Student == <<"S", "t", "u", "d", "e", "n", "t">>
Date == <<"D", "a", "t", "e">>
Subject == <<"S", "u", "b", "j", "e", "c", "t">>
TeachersName == <<"T", "e", "a", "c", "h", "e", "r", "s", " ", "N", "a", "m", "e">>
ChapterTaken == <<"C", "h", "a", "p", "t", "e", "r", " ", "t", "a", "k", "e", "n">>
TypeOfClass == <<"T", "y", "p", "e", " ", "o", "f", " ", "c", "l", "a", "s", "s">>
Unnamed == <<"U", "n", "n", "a", "m", "e", "d">>

required_columns == <<Date, Subject, Hr, TeachersName, ChapterTaken, TypeOfClass>>

(***************************************************************************)
(* Python str operations.                                                  *)
(***************************************************************************)
UpperChars == <<"A", "B", "C", "D", "E", "F", "G", "H", "I", "J", "K", "L", "M",
                "N", "O", "P", "Q", "R", "S", "T", "U", "V", "W", "X", "Y", "Z">>
LowerChars == <<"a", "b", "c", "d", "e", "f", "g", "h", "i", "j", "k", "l", "m",
                "n", "o", "p", "q", "r", "s", "t", "u", "v", "w", "x", "y", "z">>
DigitChars == <<"0", "1", "2", "3", "4", "5", "6", "7", "8", "9">>
\* the characters of the model in code-point order
CodePoints == <<" ", "(", ".">> \o DigitChars \o UpperChars \o LowerChars

IndexOf(seq, c) == CHOOSE i \in 1..Len(seq) : seq[i] = c
InSeq(seq, c) == \E i \in 1..Len(seq) : seq[i] = c

IsSpace(c) == c = " "

\* str.lower()
LowerChar(c) == IF InSeq(UpperChars, c) THEN LowerChars[IndexOf(UpperChars, c)] ELSE c
Lower(s) == [i \in 1..Len(s) |-> LowerChar(s[i])]

\* str.strip(): drop leading and trailing whitespace
RECURSIVE LStrip(_)
LStrip(s) == IF s # <<>> /\ IsSpace(Head(s)) THEN LStrip(Tail(s)) ELSE s
RECURSIVE RStrip(_)
RStrip(s) ==
    IF s # <<>> /\ IsSpace(s[Len(s)]) THEN RStrip(SubSeq(s, 1, Len(s) - 1)) ELSE s
Strip(s) == RStrip(LStrip(s))

\* str(n) for n >= 0
RECURSIVE IntToStr(_)
IntToStr(n) ==
    IF n < 10 THEN <<DigitChars[n + 1]>>
    ELSE IntToStr(n \div 10) \o <<DigitChars[(n % 10) + 1]>>

\* the order of Python strings: lexicographic by code point
Ord(c) == IndexOf(CodePoints, c)
RECURSIVE StrLess(_, _)
StrLess(a, b) ==
    IF b = <<>> THEN FALSE
    ELSE IF a = <<>> THEN TRUE
    ELSE IF Head(a) = Head(b) THEN StrLess(Tail(a), Tail(b))
    ELSE Ord(Head(a)) < Ord(Head(b))

(***************************************************************************)
(* Cells of a DataFrame: a string, the null marker pd.NA, or a number.     *)
(***************************************************************************)
Str(s) == [t |-> "str", s |-> s, n |-> 0]
NA == [t |-> "null", s |-> <<>>, n |-> 0]
Num(n) == [t |-> "num", s |-> <<>>, n |-> n]

\* pd.DataFrame(): no columns, no rows
EmptyTable == [cols |-> <<>>, rows |-> <<>>]
\* DataFrame.empty
IsEmpty(df) == df.cols = <<>> \/ df.rows = <<>>

HasColumn(df, name) == InSeq(df.cols, name)
\* the position of a column; the names the program looks up end in a letter,
\* so header resolution never yields two of them
ColIndex(df, name) == CHOOSE i \in 1..Len(df.cols) :
    df.cols[i] = name /\ \A j \in 1..(i - 1) : df.cols[j] # name
Column(df, name) == [r \in 1..Len(df.rows) |-> df.rows[r][ColIndex(df, name)]]

(***************************************************************************)
(* Table normalizer: fetch_data_from_sheet, lines 64-73.                   *)
(***************************************************************************)
\* headers.groupby(headers).cumcount(): earlier occurrences of the same label
cumcount(h, i) == Cardinality({j \in 1..(i - 1) : h[j] = h[i]})

\* .astype(str).replace('0', ''): the whole value "0" becomes the empty string
Suffix(n) == IF IntToStr(n) = <<"0">> THEN <<>> ELSE IntToStr(n)

ResolveHeaders(row0) ==
    LET stripped == [i \in 1..Len(row0) |-> Strip(row0[i])]
        named == [i \in 1..Len(row0) |->
                    IF stripped[i] = <<>> THEN Unnamed ELSE stripped[i]]
    IN [i \in 1..Len(row0) |-> named[i] \o Suffix(cumcount(named, i))]

\* df.replace('', pd.NA)
ReplaceEmpty(raw) == IF raw = <<>> THEN NA ELSE Str(raw)

\* df.ffill() on one column: carry the last valid value downwards
RECURSIVE FFillFrom(_, _, _)
FFillFrom(col, i, last) ==
    IF i > Len(col) THEN <<>>
    ELSE LET v == IF col[i] = NA THEN last ELSE col[i]
         IN <<v>> \o FFillFrom(col, i + 1, v)
\* a fill that looks one row up only: a blank under a blank stays blank
ffill_limit1(col) ==
    [i \in 1..Len(col) |-> IF col[i] = NA /\ i > 1 THEN col[i - 1] ELSE col[i]]
ffill(col) == FFillFrom(col, 1, NA)

\* value of a string of decimal digits
RECURSIVE DigitsValue(_)
DigitsValue(s) ==
    IF s = <<>> THEN 0
    ELSE 10 * DigitsValue(SubSeq(s, 1, Len(s) - 1)) + (IndexOf(DigitChars, s[Len(s)]) - 1)
IsDigits(s) == s # <<>> /\ \A i \in 1..Len(s) : InSeq(DigitChars, s[i])

\* pd.to_numeric(errors='coerce').fillna(0) on one cell
to_numeric(cell) ==
    IF cell.t = "str" /\ IsDigits(cell.s) THEN Num(DigitsValue(cell.s)) ELSE Num(0)

\* data is the non-empty result of get_all_values(): header row, then data rows
Normalize(data) ==
    LET headers == ResolveHeaders(data[1])
        nrows == Len(data) - 1
        ncols == Len(headers)
        rawcol(c) == [r \in 1..nrows |-> ReplaceEmpty(data[r + 1][c])]
        filled == [c \in 1..ncols |-> ffill(rawcol(c))]
        typed == [c \in 1..ncols |->
                    IF headers[c] = Hr
                    THEN [r \in 1..nrows |-> to_numeric(filled[c][r])]
                    ELSE filled[c]]
    IN [cols |-> headers,
        rows |-> [r \in 1..nrows |-> [c \in 1..ncols |-> typed[c][r]]]]

(***************************************************************************)
(* What a run writes to the page: one record per Streamlit call.           *)
(***************************************************************************)
Msg(k, t, a) == [k |-> k, t |-> t, a |-> a]

VerificationFailed == Msg("error", "Verification failed. Please check your details.", <<>>)

(***************************************************************************)
(* The environment a fetch meets: the secrets store and the remote sheet.  *)
(***************************************************************************)
Environment(secrets, remote, raw) == [secrets |-> secrets, remote |-> remote, raw |-> raw]

\* load_credentials_from_secrets: only KeyError is handled; json.loads raises
\* JSONDecodeError on an entry that is not JSON
load_credentials_from_secrets(env) ==
    CASE env.secrets = "absent" ->
            [exc |-> "none", info |-> FALSE,
             msgs |-> <<Msg("error", "Google credentials not found in Streamlit secrets.", <<>>)>>]
      [] env.secrets = "malformed" ->
            [exc |-> "JSONDecodeError", info |-> FALSE, msgs |-> <<>>]
      [] OTHER ->
            [exc |-> "none", info |-> TRUE, msgs |-> <<>>]

\* connect_to_google_sheets: the credentials are loaded outside the try block
connect_to_google_sheets(env) ==
    LET cred == load_credentials_from_secrets(env)
    IN IF cred.exc # "none" THEN [exc |-> cred.exc, sheet |-> FALSE, msgs |-> cred.msgs]
       ELSE IF ~cred.info THEN [exc |-> "none", sheet |-> FALSE, msgs |-> cred.msgs]
       ELSE CASE env.remote = "SpreadsheetNotFound" ->
                    [exc |-> "none", sheet |-> FALSE,
                     msgs |-> <<Msg("error", "Spreadsheet not found", <<>>)>>]
              [] env.remote = "WorksheetNotFound" ->
                    [exc |-> "none", sheet |-> FALSE,
                     msgs |-> <<Msg("error", "Worksheet not found", <<>>)>>]
              [] env.remote = "ConnectError" ->
                    [exc |-> "none", sheet |-> FALSE,
                     msgs |-> <<Msg("error", "Unexpected error connecting to Google Sheets", <<>>)>>]
              [] OTHER ->
                    [exc |-> "none", sheet |-> TRUE, msgs |-> <<>>]

\* fetch_data_from_sheet: the connection is made outside the try block
fetch_data_from_sheet(env) ==
    LET conn == connect_to_google_sheets(env)
    IN IF conn.exc # "none" THEN [exc |-> conn.exc, df |-> EmptyTable, msgs |-> conn.msgs]
       ELSE IF ~conn.sheet THEN
            [exc |-> "none", df |-> EmptyTable,
             msgs |-> conn.msgs \o
                      <<Msg("warning", "Could not establish a connection to the worksheet", <<>>)>>]
       ELSE CASE env.remote = "APIError" ->
                    [exc |-> "none", df |-> EmptyTable,
                     msgs |-> <<Msg("error", "Google Sheets API error fetching data", <<>>)>>]
              [] env.remote = "ReadError" ->
                    [exc |-> "none", df |-> EmptyTable,
                     msgs |-> <<Msg("error", "Error fetching data", <<>>)>>]
              [] env.raw = <<>> ->
                    [exc |-> "none", df |-> EmptyTable,
                     msgs |-> <<Msg("warning", "No data found in worksheet", <<>>)>>]
              [] OTHER ->
                    [exc |-> "none", df |-> Normalize(env.raw), msgs |-> <<>>]

(***************************************************************************)
(* Filter and aggregation: handle_student_data.                            *)
(***************************************************************************)
\* Series.unique(): distinct values in order of first appearance
RECURSIVE unique(_)
unique(col) ==
    IF col = <<>> THEN <<>>
    ELSE LET front == unique(SubSeq(col, 1, Len(col) - 1))
             last == col[Len(col)]
         IN IF InSeq(front, last) THEN front ELSE Append(front, last)

\* sorted() must compare as soon as there are two values; comparing pd.NA
\* with a str raises TypeError
SortRaises(vals) == Len(vals) >= 2 /\ InSeq(vals, NA)
sorted(vals) == SortSeq(vals, LAMBDA a, b : StrLess(a.s, b.s))

\* the options of the month selector, when sorting them does not raise
MonthOptions(data) == sorted(unique(Column(data, MM)))

\* re.compile(pat): of the characters of the model only "(" makes a pattern
\* invalid (an unterminated group)
RegexValid(pat) == ~InSeq(pat, "(")
\* re.search(pat, s): "." matches any character, the others match themselves
RegexMatchAt(pat, s, k) == \A i \in 1..Len(pat) : pat[i] = "." \/ pat[i] = s[k + i]
RegexSearch(pat, s) == \E k \in 0..(Len(s) - Len(pat)) : RegexMatchAt(pat, s, k)

\* data["MM"] == month: a null never compares equal
MonthEq(cell, month) == cell.t = "str" /\ month.t = "str" /\ cell.s = month.s
\* data["Student ID"].str.lower().str.strip() == student_id
IdEq(cell, student_id) == cell.t = "str" /\ Strip(Lower(cell.s)) = student_id
\* data["Student"].str.lower().str.contains(student_name_part): a regex search
NameContains(cell, part) == cell.t = "str" /\ RegexSearch(part, Lower(cell.s))

\* the indexes of the rows of data selected by lines 98-100
FilterRows(data, month, student_id, student_name_part) ==
    LET mm == Column(data, MM)
        sid == Column(data, StudentID)
        nm == Column(data, Student)
        keep(r) == /\ MonthEq(mm[r], month)
                   /\ IdEq(sid[r], student_id)
                   /\ NameContains(nm[r], student_name_part)
    IN SelectSeq([r \in 1..Len(data.rows) |-> r], keep)

\* a check that reports the whole required set as soon as one column is missing
MissingColumns_all(data) ==
    IF \E i \in 1..Len(required_columns) : ~HasColumn(data, required_columns[i])
    THEN required_columns ELSE <<>>
\* [col for col in required_columns if col not in filtered_data.columns]
MissingColumns(data) == SelectSeq(required_columns, LAMBDA col : ~HasColumn(data, col))

RECURSIVE SumSeq(_)
SumSeq(s) == IF s = <<>> THEN 0 ELSE Head(s) + SumSeq(Tail(s))

\* filtered_data["Hr"].sum()
TotalHours(data, rows) ==
    LET hr == Column(data, Hr) IN SumSeq([i \in 1..Len(rows) |-> hr[rows[i]].n])

\* filtered_data.groupby("Subject")["Hr"].sum().reset_index(): groupby drops
\* the rows whose key is null and sorts the keys
SubjectHours(data, rows) ==
    LET subj == Column(data, Subject)
        hr == Column(data, Hr)
        keys == sorted(unique(SelectSeq([i \in 1..Len(rows) |-> subj[rows[i]]],
                                        LAMBDA c : c # NA)))
        total(key) == SumSeq([i \in 1..Len(rows) |->
                                IF subj[rows[i]] = key THEN hr[rows[i]].n ELSE 0])
    IN [i \in 1..Len(keys) |-> [Subject |-> keys[i], TotalHours |-> total(keys[i])]]

\* filtered_data[required_columns]
Project(data, rows) ==
    [i \in 1..Len(rows) |->
        [c \in 1..Len(required_columns) |->
            data.rows[rows[i]][ColIndex(data, required_columns[c])]]]

\* a verification whose failure message tells an unknown id from the rest
VerifyStudent_leaky(data, month, student_id, student_name_part) ==
    IF ~HasColumn(data, StudentID) \/ ~HasColumn(data, Student)
    THEN [exc |-> "KeyError", msgs |-> <<>>, filtered |-> <<>>]
    ELSE IF ~RegexValid(student_name_part)
    THEN [exc |-> "re.error", msgs |-> <<>>, filtered |-> <<>>]
    ELSE LET rows == FilterRows(data, month, student_id, student_name_part)
             sid == Column(data, StudentID)
             known == \E r \in 1..Len(sid) : IdEq(sid[r], student_id)
         IN IF rows = <<>>
            THEN [exc |-> "none", filtered |-> rows,
                  msgs |-> IF known THEN <<VerificationFailed>>
                           ELSE <<Msg("error", "Unknown student id.", <<>>)>>]
            ELSE [exc |-> "none", filtered |-> rows,
                  msgs |-> <<Msg("subheader", "Welcome", <<Column(data, Student)[rows[1]]>>)>>]

\* the body of "if st.button('Verify Student'):", lines 98-130
VerifyStudent(data, month, student_id, student_name_part) ==
    IF ~HasColumn(data, StudentID) \/ ~HasColumn(data, Student)
    THEN [exc |-> "KeyError", msgs |-> <<>>, filtered |-> <<>>]
    ELSE IF ~RegexValid(student_name_part)
    THEN [exc |-> "re.error", msgs |-> <<>>, filtered |-> <<>>]
    ELSE LET rows == FilterRows(data, month, student_id, student_name_part)
             welcome == Msg("subheader", "Welcome", <<Column(data, Student)[rows[1]]>>)
             missing == MissingColumns(data)
         IN IF rows = <<>>
            THEN [exc |-> "none", msgs |-> <<VerificationFailed>>, filtered |-> rows]
            ELSE IF missing # <<>>
            THEN [exc |-> "none", filtered |-> rows,
                  msgs |-> <<welcome,
                             Msg("error", "The following required columns are missing", missing),
                             Msg("write", "Available columns in filtered_data", data.cols)>>]
            ELSE [exc |-> "none", filtered |-> rows,
                  msgs |-> <<welcome,
                             Msg("subheader", "Your Monthly Class Data", <<>>),
                             Msg("write", "filtered_data", Project(data, rows)),
                             Msg("write", "Total Hours", <<month, TotalHours(data, rows)>>),
                             Msg("subheader", "Subject-wise Hour Breakdown", <<>>),
                             Msg("write", "subject_hours", SubjectHours(data, rows))>>]

\* handle_student_data; clicked is the state of the "Verify Student" button
\* in this run, and the three inputs are the widgets' values
handle_student_data(data, clicked, month, id_input, name_input) ==
    LET top == <<Msg("subheader", "Student Dashboard", <<>>)>>
    IN IF ~HasColumn(data, MM)
       THEN [exc |-> "none", button |-> FALSE, filtered |-> <<>>,
             msgs |-> top \o <<Msg("warning", "Month data ('MM' column) not found", <<>>),
                               Msg("write", "columns", data.cols)>>]
       ELSE IF SortRaises(unique(Column(data, MM)))
       THEN [exc |-> "TypeError", button |-> FALSE, filtered |-> <<>>, msgs |-> top]
       ELSE LET student_id == Lower(Strip(id_input))
                student_name_part == Lower(Strip(name_input))
                widgets == top \o <<Msg("selectbox", "Select Month", MonthOptions(data)),
                                    Msg("text_input", "Enter Your Student ID", <<>>),
                                    Msg("text_input", "Enter any part of your name", <<>>),
                                    Msg("button", "Verify Student", <<>>)>>
                v == VerifyStudent(data, month, student_id, student_name_part)
            IN IF ~clicked
               THEN [exc |-> "none", button |-> TRUE, filtered |-> <<>>, msgs |-> widgets]
               ELSE [exc |-> v.exc, button |-> TRUE, filtered |-> v.filtered,
                     msgs |-> widgets \o v.msgs]

(***************************************************************************)
(* The worksheets and the faults the model draws from.                     *)
(***************************************************************************)
SeqsUpTo(S, n) == UNION {[1..k -> S] : k \in 1..n}

FullHeader == <<MM, StudentID, Student, Date, Subject, Hr, TeachersName, ChapterTaken, TypeOfClass>>
Without(row, k) == [i \in 1..(Len(row) - 1) |-> IF i < k THEN row[i] ELSE row[i + 1]]

\* class records, in the order of FullHeader; a blank cell is a merged or
\* unfilled cell of the worksheet
ClassRows ==
    { <<<<"1">>, <<"S", "1">>, <<"A", "b", "c", "d">>, <<"d">>, <<"m">>, <<"2">>, <<"t">>, <<"c">>, <<"y">>>>,
      <<<<>>, <<>>, <<>>, <<"e">>, <<>>, <<>>, <<>>, <<>>, <<>>>>,
      <<<<"1">>, <<" ", "s", "1">>, <<"A", "b", "c", "d">>, <<"d">>, <<>>, <<"3">>, <<"t">>, <<"c">>, <<"y">>>>,
      <<<<"2">>, <<"s", "2">>, <<"A", "x", "c", "d">>, <<"d">>, <<"s">>, <<"x">>, <<"t">>, <<"c">>, <<"y">>>> }
\* the records used in the worksheets that lack a column
FilledRows == {row \in ClassRows : row[1] # <<>> /\ row[5] # <<>>}

ClassSheets == {<<FullHeader>> \o rows : rows \in SeqsUpTo(ClassRows, MaxRows)}

\* the worksheet without its k-th column: 'MM', 'Student ID', 'Chapter taken'
DroppedColumns == {1, 2, 8}
LackingSheets ==
    {<<Without(FullHeader, k)>> \o [r \in 1..Len(rows) |-> Without(rows[r], k)] :
        k \in DroppedColumns, rows \in SeqsUpTo(FilledRows, MaxRows)}

\* worksheets with arbitrary header rows and one data row
HeaderLabels == {<<"A">>, <<"A", "1">>, <<>>, <<" ", "A">>}
HeaderSheets == {<<h, [i \in 1..Len(h) |-> <<"x">>]>> : h \in SeqsUpTo(HeaderLabels, MaxCols)}

\* the worksheets of the dashboard, and those of the table normalizer
Sheets == ClassSheets \cup LackingSheets \cup {<<FullHeader>>}
RawTables ==
    {<<FullHeader>> \o rows : rows \in SeqsUpTo(ClassRows, MaxRawRows)} \cup HeaderSheets

Faults ==
    {Environment("valid", remote, <<>>) :
        remote \in {"SpreadsheetNotFound", "WorksheetNotFound", "ConnectError",
                    "APIError", "ReadError"}}
    \cup {Environment(secrets, "ok", <<>>) : secrets \in {"absent", "malformed"}}
Envs == {Environment("valid", "ok", raw) : raw \in Sheets \cup {<<>>}} \cup Faults
NormEnvs == {Environment("valid", "ok", raw) : raw \in RawTables}

\* fetch_data_from_sheet over every environment of the model, computed once
FetchResult == [env \in Envs \cup NormEnvs |-> fetch_data_from_sheet(env)]

(***************************************************************************)
(* One run of main().  sess is st.session_state before the run, refresh    *)
(* and verify say which button started the run.  An exception that nothing *)
(* handles ends the run where it is raised; session state stays as it was  *)
(* at that point.                                                          *)
(***************************************************************************)
Cached(df) == [has |-> TRUE, data |-> df]
NoCache == [has |-> FALSE, data |-> EmptyTable]

main(sess, refresh, verify, env, month, id_input, name_input) ==
    LET top == <<Msg("image", "logo", <<>>),
                 Msg("title", "Angle Belearn: Student Dashboard", <<>>),
                 Msg("button", "Refresh Data", <<>>)>>
        fetching == refresh \/ ~sess.has
        f == FetchResult[env]
        loaded == IF ~fetching THEN top
                  ELSE IF refresh
                  THEN top \o f.msgs \o <<Msg("success", "Data refreshed successfully!", <<>>)>>
                  ELSE top \o f.msgs
        sess1 == IF fetching THEN Cached(f.df) ELSE sess
        h == handle_student_data(sess1.data, verify, month, id_input, name_input)
        raised(exc) == IF exc = "none" THEN <<>> ELSE <<Msg("exception", exc, <<>>)>>
    IN IF fetching /\ f.exc # "none"
       THEN [session |-> sess, exc |-> f.exc, out |-> top \o f.msgs \o raised(f.exc),
             button |-> FALSE, filtered |-> <<>>]
       ELSE IF IsEmpty(sess1.data)
       THEN [session |-> sess1, exc |-> "none", button |-> FALSE, filtered |-> <<>>,
             out |-> loaded \o <<Msg("warning", "No data available. Please check the data source.", <<>>)>>]
       ELSE [session |-> sess1, exc |-> h.exc, button |-> h.button, filtered |-> h.filtered,
             out |-> loaded \o h.msgs \o raised(h.exc)]

(***************************************************************************)
(* The user inputs the model draws from.                                   *)
(***************************************************************************)
\* what the user types, before .strip().lower()
IdInputs == {<<>>, <<" ", "S", "1">>, <<"s", "2">>}
NameInputs == {<<>>, <<"b", "c">>, <<"a", ".", "c", "d">>, <<"A", "b", "c", "d", " ">>, <<"(">>}

(***************************************************************************)
(* State.                                                                  *)
(***************************************************************************)
VARIABLES
    session,        \* st.session_state: whether "data" is set, and its value
    out,            \* what the last run wrote to the page
    exc,            \* the exception that ended the last run, or "none"
    verifyButton,   \* the last run rendered the "Verify Student" button
    filtered_data,  \* row indexes of session.data selected by the last run
    action,         \* what started the last run
    env_seen,       \* the environment met by the fetch of the last run
    criteria        \* month, student_id, student_name_part of the last run

vars == <<session, out, exc, verifyButton, filtered_data, action, env_seen, criteria>>

NoEnv == [fetched |-> FALSE, env |-> Environment("valid", "ok", <<>>)]
NoCriteria == [month |-> NA, student_id |-> <<>>, student_name_part |-> <<>>]

Init ==
    /\ session = NoCache
    /\ out = <<>>
    /\ exc = "none"
    /\ verifyButton = FALSE
    /\ filtered_data = <<>>
    /\ action = "start"
    /\ env_seen = NoEnv
    /\ criteria = NoCriteria

Run(r) ==
    /\ session' = r.session
    /\ out' = r.out
    /\ exc' = r.exc
    /\ verifyButton' = r.button
    /\ filtered_data' = r.filtered

\* a run started by no button: the first load of the page, a rerun, or the
\* edit of a widget; it fetches only when nothing is cached
Load(envs) ==
    /\ \E env \in (IF session.has THEN {NoEnv.env} ELSE envs) :
          /\ Run(main(session, FALSE, FALSE, env, NA, <<>>, <<>>))
          /\ env_seen' = [fetched |-> ~session.has, env |-> env]
    /\ action' = "rerun"
    /\ criteria' = NoCriteria

Rerun == Load(Envs)

\* the sidebar button "Refresh Data", rendered by every run
ClickRefreshData ==
    /\ action # "start"
    /\ \E env \in Envs :
          /\ Run(main(session, TRUE, FALSE, env, NA, <<>>, <<>>))
          /\ env_seen' = [fetched |-> TRUE, env |-> env]
    /\ action' = "refresh"
    /\ criteria' = NoCriteria

\* the button "Verify Student", with the month chosen among the selector's
\* options and the two text inputs as typed
ClickVerifyStudent ==
    /\ verifyButton
    /\ \E i \in 1..Len(MonthOptions(session.data)), id_input \in IdInputs, name_input \in NameInputs :
          LET month == MonthOptions(session.data)[i]
          IN /\ Run(main(session, FALSE, TRUE, NoEnv.env, month, id_input, name_input))
             /\ criteria' = [month |-> month,
                             student_id |-> Lower(Strip(id_input)),
                             student_name_part |-> Lower(Strip(name_input))]
    /\ action' = "verify"
    /\ env_seen' = NoEnv

Next == Rerun \/ ClickRefreshData \/ ClickVerifyStudent

Spec == Init /\ [][Next]_vars

(***************************************************************************)
(* The table normalizer alone: the page is loaded over each raw table.     *)
(***************************************************************************)
LoadRawTable == Load(NormEnvs)

SpecNorm == Init /\ [][LoadRawTable]_vars
(***************************************************************************)
(* Properties.                                                             *)
(***************************************************************************)
Range(f) == {f[i] : i \in DOMAIN f}
Max(S) == CHOOSE x \in S : \A y \in S : y <= x
Texts == {out[i].t : i \in 1..Len(out)}
\* p occurs in s as a run of consecutive characters
IsSubstring(p, s) == \E k \in 0..(Len(s) - Len(p)) : SubSeq(s, k + 1, k + Len(p)) = p
\* the cell of the cached table in row r under a column name
Cell(r, name) ==
    session.data.rows[r][CHOOSE c \in 1..Len(session.data.cols) : session.data.cols[c] = name]
\* the last run verified without raising
Verified == action = "verify" /\ exc = "none"
ResultTexts == {"Your Monthly Class Data", "filtered_data", "Total Hours",
                "Subject-wise Hour Breakdown", "subject_hours"}
\* the minimum length the name input asks for (line 95)
MinNameLen == 4

\* C1: no run of main() ends in an exception.
C1_NoExceptionEscapes == exc = "none"

\* C2: the rows selected by Verify Student are exactly those whose month
\* equals the selected month, whose id lowercased and trimmed equals the
\* entered id, and whose name lowercased contains the fragment as a substring.
C2_SelectsExactlySubstringMatches ==
    Verified =>
        Range(filtered_data) =
            {r \in 1..Len(session.data.rows) :
                /\ Cell(r, MM) = criteria.month
                /\ Cell(r, StudentID).t = "str"
                /\ Strip(Lower(Cell(r, StudentID).s)) = criteria.student_id
                /\ Cell(r, Student).t = "str"
                /\ IsSubstring(criteria.student_name_part, Lower(Cell(r, Student).s))}

\* C3: a Verify with incomplete criteria (empty id, or a name fragment
\* shorter than 4 characters) shows an error and no result.
C3_IncompleteCriteriaRejected ==
    (/\ Verified
     /\ \/ criteria.student_id = <<>>
        \/ Len(criteria.student_name_part) < MinNameLen)
    => (/\ "Welcome" \notin Texts
        /\ \E i \in 1..Len(out) : out[i].k = "error")

\* C4: after a Refresh Data run the cached table is the result of that run's
\* fetch, the empty table when the fetch failed.
C4_RefreshReplacesCache ==
    action = "refresh" =>
        LET result == IF env_seen.env.secrets = "valid" /\ env_seen.env.remote = "ok"
                         /\ env_seen.env.raw # <<>>
                      THEN Normalize(env_seen.env.raw)
                      ELSE EmptyTable
        IN \/ session.data = result
           \/ IsEmpty(session.data) /\ IsEmpty(result)

\* the last Verify matched rows of a table that lacks a required column
MissingCase ==
    /\ Verified
    /\ filtered_data # <<>>
    /\ \E c \in Range(required_columns) : c \notin Range(session.data.cols)

\* the run ends with the error naming exactly the missing columns, in the
\* order of the required set, and the list of the available columns
MissingReported ==
    /\ Len(out) >= 2
    /\ LET err == out[Len(out) - 1]
           pos(c) == CHOOSE i \in 1..Len(required_columns) : required_columns[i] = c
       IN /\ err.k = "error"
          /\ err.t = "The following required columns are missing"
          /\ Range(err.a) = {c \in Range(required_columns) : c \notin Range(session.data.cols)}
          /\ \A i, j \in 1..Len(err.a) : i < j => pos(err.a[i]) < pos(err.a[j])
    /\ out[Len(out)].a = session.data.cols
    /\ Texts \cap ResultTexts = {}

NoMatch == Verified /\ filtered_data = <<>>

Normalized ==
    /\ env_seen.fetched
    /\ exc \in {"none", "TypeError"}
    /\ env_seen.env.secrets = "valid" /\ env_seen.env.remote = "ok"
    /\ env_seen.env.raw # <<>>
\* the raw cell of data row r and column c
RawCell(r, c) == env_seen.env.raw[r + 1][c]
RawRows == 1..(Len(env_seen.env.raw) - 1)
RawCols == 1..Len(env_seen.env.raw[1])

\* C7: the resolved headers are pairwise distinct.
C7_HeadersUnique ==
    Normalized =>
        \A i, j \in 1..Len(session.data.cols) :
            i # j => session.data.cols[i] # session.data.cols[j]

\* C8: in column 'Hr' a cell that is empty or not a number in the raw data is
\* 0 after normalization, and a cell that is a number keeps its value.
C8_MissingHrIsZero ==
    Normalized =>
        \A r \in RawRows, c \in RawCols :
            session.data.cols[c] = Hr =>
                session.data.rows[r][c] =
                    IF /\ RawCell(r, c) # <<>>
                       /\ \A i \in 1..Len(RawCell(r, c)) : RawCell(r, c)[i] \in Range(DigitChars)
                    THEN Num(DigitsValue(RawCell(r, c)))
                    ELSE Num(0)

\* C9 as stated: after normalization no cell is empty or null.
C9_NoCellNull ==
    Normalized =>
        \A r \in RawRows, c \in RawCols :
            session.data.rows[r][c] # NA /\ session.data.rows[r][c] # Str(<<>>)

\* C9 as amended: in a column other than 'Hr' a cell holds the value of the
\* nearest non-empty raw cell at or above it in its column, and is null
\* exactly when there is none.
C9_ForwardFill ==
    Normalized =>
        \A r \in RawRows, c \in RawCols :
            session.data.cols[c] # Hr =>
                LET prior == {q \in 1..r : RawCell(q, c) # <<>>}
                IN session.data.rows[r][c] =
                      IF prior = {} THEN NA ELSE Str(RawCell(Max(prior), c))

\* a blank under a blank under a value, and a leading blank
C9_Witness ==
    /\ Normalized
    /\ \E c \in RawCols :
          /\ session.data.cols[c] # Hr
          /\ \E r \in RawRows : r >= 3 /\ RawCell(r, c) = <<>> /\ RawCell(r - 1, c) = <<>>
                                /\ RawCell(r - 2, c) # <<>>
    /\ \E c \in RawCols : session.data.cols[c] # Hr /\ RawCell(1, c) = <<>>

\* C10: the per-subject table has one entry for each distinct Subject of the
\* filtered rows, null included, and its totals add up to the total hours.
C10_SubjectTotalsAddUp ==
    (Verified /\ filtered_data # <<>> /\ "subject_hours" \in Texts) =>
        LET table == out[Len(out)].a
            total == out[Len(out) - 2].a[2]
        IN /\ {table[i].Subject : i \in 1..Len(table)} =
                {Cell(r, Subject) : r \in Range(filtered_data)}
           /\ SumSeq([i \in 1..Len(table) |-> table[i].TotalHours]) = total
====
